---------------------------- MODULE Spec2Model ----------------------------
(***************************************************************************)
(* The challenge pallet of ZeroDAO-node (pallets/challenges/src/lib.rs)    *)
(* with the sweeper-fee rule of primitives/src/lib.rs, as a state machine. *)
(*                                                                         *)
(* State: the block number, the Metadatas storage map, and two history     *)
(* variables: `untouched`, the targets whose record was created by `new`   *)
(* and has not been operated on since, and `last`, the record of the       *)
(* latest step (the call, the block, the storage value it found, its       *)
(* result, and the Currency calls it made that took effect).               *)
(*                                                                         *)
(* The commitment levels of the refresh-seeds pallet                       *)
(* (pallets/refresh-seeds/src/functions.rs) are the storage maps           *)
(* ResultHashsSets and Candidates, with `lastHash`, the record of the      *)
(* latest call that wrote or tried to write ResultHashsSets. The paths the  *)
(* pathfinder published and the path a challenger claims was left out are  *)
(* the storage maps Paths and MissedPaths, ScoreList is the sorted list of  *)
(* the candidates' scores, and `lastPath` is the record of the latest call  *)
(* on the paths, with its arguments.                                       *)
(***************************************************************************)
EXTENDS Integers, Sequences, FiniteSets, TLC

VARIABLES now, Metadatas, untouched, last, ResultHashsSets, Candidates, lastHash,
          Paths, MissedPaths, ScoreList, lastPath

vars == <<now, Metadatas, untouched, last, ResultHashsSets, Candidates, lastHash,
          Paths, MissedPaths, ScoreList, lastPath>>

\* The variables of the challenge records, and those of the commitments.
challengeVars == <<now, Metadatas, untouched, last>>
hashVars == <<ResultHashsSets, Candidates, lastHash>>
\* The variables of the paths.
pathVars == <<Paths, MissedPaths, ScoreList, lastPath>>

-----------------------------------------------------------------------------
(* Option<T>: None is the empty sequence, Some(x) the one-element one.     *)
None == << >>
Some(x) == << x >>

-----------------------------------------------------------------------------
(* Bounds of the model and the program's constants.                        *)

\* Stand-in for Balance::MAX (u128::MAX): checked_add fails above it. Two
\* fees of 126 fit, a third overflows; 252 with a stake of 4 overflows the
\* pool total.
BalanceMax == 255
\* Largest `quantity` / `total` / `count` argument that is drawn.
MaxQuantity == 1
\* Stand-in for u32::MAX, the width of progress.total and progress.done: a
\* sum above it saturates (saturating_add) or overflows (+).
U32Max == 31

MAX_UPDATE_COUNT == 10
SWEEPER_PERIOD == 500
\* Perbill::from_perthousand(20): parts per thousand.
SWEEPER_PICKUP_RATIO == 20
\* T::ChallengePerior, a runtime configuration value (100 in the scenarios).
ChallengePerior == 100
\* factor::CHALLENGE_STAKING_AMOUNT, staked from the caller of `new`.
CHALLENGE_STAKING_AMOUNT == 2

\* AccountId::default(), the value of every account field of a default record.
Default == "default"
Accounts == {Default, "alice"}
Targets == {"t"}
\* The accounts named as path_finder in a call of `new`.
PathFinders == Accounts \ {Default}

\* Block numbers the clock visits. Block 100 = ChallengePerior is the first
\* one, with the storage still empty; a record opened at 101 then meets the
\* same block, 102 (inside its period), 201 and 202 (last_update +
\* ChallengePerior and one more), 601 and 602 (last_update + SWEEPER_PERIOD
\* and one more).
Blocks == {100, 101, 102, 201, 202, 601, 602}

Stakings == {CHALLENGE_STAKING_AMOUNT}
Fees == {126}
\* The score given to `new` and the one given to `arbitral`.
NewScores == {5}
ArbitralScores == {7}
Remarks == {0, 1}
Quantities == 0 .. MaxQuantity

-----------------------------------------------------------------------------
(* Metadata and its methods.                                               *)

\* #[derive(Default)] for Metadata, with Status::default() = EXAMINE.
DefaultMetadata ==
    [ pool |-> [staking |-> 0, sub_staking |-> 0, earnings |-> 0],
      beneficiary |-> Default,
      joint_benefits |-> FALSE,
      progress |-> [owner |-> Default, total |-> 0, done |-> 0],
      last_update |-> 0,
      remark |-> 0,
      score |-> 0,
      pathfinder |-> Default,
      status |-> "EXAMINE",
      challenger |-> Default ]

\* Balance::checked_add
checked_add(a, b) == IF a + b > BalanceMax THEN None ELSE Some(a + b)

total_amount(m) ==
    LET a == checked_add(m.pool.staking, m.pool.sub_staking)
    IN  IF a = None THEN None ELSE checked_add(a[1], m.pool.earnings)

is_all_done(m) == m.progress.total = m.progress.done

check_progress(m) == m.progress.total >= m.progress.done

\* is_allowed_evidence with the period's last block let through.
is_allowed_evidence_at_period(m, n) ==
    IF ~is_all_done(m) /\ m.last_update + ChallengePerior >= n
    THEN FALSE
    ELSE m.last_update + ChallengePerior <= n

is_allowed_evidence(m, n) ==
    IF ~is_all_done(m) /\ m.last_update + ChallengePerior >= n
    THEN FALSE
    ELSE m.last_update + ChallengePerior < n

\* is_challenger that also lets the pathfinder through.
is_challenger_or_pathfinder(m, who) == m.challenger = who \/ m.pathfinder = who

is_challenger(m, who) == m.challenger = who

is_pathfinder(m, who) == m.pathfinder = who

new_progress(m, total) == [m EXCEPT !.progress.total = total]

\* u32::saturating_add
saturating_add(a, b) == IF a + b > U32Max THEN U32Max ELSE a + b

\* Metadata::next
next_progress(m, count, who) ==
    LET m1 == [m EXCEPT !.progress.done = saturating_add(m.progress.done, count)]
    IN  IF is_all_done(m1) THEN [m1 EXCEPT !.beneficiary = who] ELSE m1

\* restart that hands the pathfinder role over whatever full_probative is.
restart_always_probative(m, full_probative) ==
    [m EXCEPT !.status = "FREE", !.joint_benefits = FALSE,
              !.pathfinder = m.challenger]

restart(m, full_probative) ==
    LET m1 == [m EXCEPT !.status = "FREE", !.joint_benefits = FALSE]
    IN  IF full_probative THEN [m1 EXCEPT !.pathfinder = m.challenger] ELSE m1

-----------------------------------------------------------------------------
(* The sweeper fee (primitives, mod fee).                                  *)

\* is_allowed_sweeper with the period's last block let through.
is_allowed_sweeper_at_period(lastb, n) == lastb + SWEEPER_PERIOD <= n

is_allowed_sweeper(lastb, n) == lastb + SWEEPER_PERIOD < n

\* mul_floor rounding up, as Perbill::mul_ceil does.
mul_ceil(x) == (x * SWEEPER_PICKUP_RATIO + 999) \div 1000

\* Perbill::mul_floor
mul_floor(x) == (x * SWEEPER_PICKUP_RATIO) \div 1000

saturating_sub(a, b) == IF a >= b THEN a - b ELSE 0

with_fee(x) ==
    LET sweeper_fee == mul_floor(x)
    IN  << sweeper_fee, saturating_sub(x, sweeper_fee) >>

checked_with_fee(x, lastb, n) ==
    IF is_allowed_sweeper(lastb, n) THEN Some(with_fee(x)) ELSE None

-----------------------------------------------------------------------------
(* Storage.                                                                *)

\* Metadatas is a ValueQuery map: a missing key reads as the default.
get_metadata(target) ==
    IF Metadatas[target] = None THEN DefaultMetadata ELSE Metadatas[target][1]

\* `lastHash` before any call on the commitments.
NoHashCall ==
    [op |-> "init", target |-> "t", do_verify |-> FALSE, index |-> 0,
     result |-> "Ok"]

\* `lastPath` before any call on the paths.
NoPathCall == [op |-> "init", result |-> "Ok"]

\* Paths and MissedPaths with nothing stored.
NoPaths ==
    /\ Paths = [t \in Targets |-> None]
    /\ MissedPaths = [t \in Targets |-> None]
    /\ lastPath = NoPathCall

\* ResultHashsSets and Candidates with nothing stored: both are ValueQuery
\* maps, a missing key reads as the empty vector and the default candidate.
NoCommitments ==
    /\ ResultHashsSets = [t \in Targets |-> << >>]
    /\ Candidates = [t \in Targets |-> [score |-> 0, pathfinder |-> Default]]
    /\ ScoreList = << >>
    /\ lastHash = NoHashCall
    /\ NoPaths

-----------------------------------------------------------------------------
(* Outcome of a call: its result ("Ok" or the error), the value it returns *)
(* (an Option<u64>, None when the call returns nothing), the value stored  *)
(* under the key when it ends, the Currency calls that took effect, and    *)
(* the arguments it handed to its callback (None when it did not call it). *)

Outcome(result, ret, meta, calls) ==
    [result |-> result, ret |-> ret, meta |-> meta, calls |-> calls,
     cb |-> None]

\* The outcome of a call that ran its callback `up` on `args`.
Handed(args, o) == [o EXCEPT !.cb = Some(args)]

\* T::Currency::staking / T::Currency::release, as << kind, account, amount >>.
Staking(who, amount) == << "staking", who, amount >>
Release(who, amount) == << "release", who, amount >>

\* The Currency is fallible: `cfail` is the position, among the Currency calls
\* an operation would make, of the one that fails (0: none fails).
Performed(calls, cfail) ==
    IF cfail \in 1 .. Len(calls) THEN SubSeq(calls, 1, cfail - 1) ELSE calls

CurrencyFails(calls, cfail) == cfail \in 1 .. Len(calls)

-----------------------------------------------------------------------------
(* harvest                                                                  *)

\* Some(<< sweeper_fee, awards >>), or None for Err(TooSoon).
checked_sweeper_fee(challenge, who, total) ==
    LET is_sweeper == challenge.challenger /= who /\ challenge.pathfinder /= who
    IN  IF is_sweeper
        THEN checked_with_fee(total, challenge.last_update, now)
        ELSE IF challenge.last_update + ChallengePerior > now
             THEN Some(<< 0, total >>)
             ELSE None

\* harvest_split with the score returned from the joint-benefits arm too.
harvest_split_joint_score(challenge, awards) ==
    CASE challenge.status \in {"FREE", "REPLY"} ->
            [pathfinder_amount |-> awards, challenger_amount |-> 0,
             maybe_score |-> None]
      [] challenge.status \in {"EXAMINE", "EVIDENCE"} ->
            [pathfinder_amount |-> 0, challenger_amount |-> awards,
             maybe_score |-> Some(challenge.score)]
      [] challenge.status = "ARBITRATION" /\ challenge.joint_benefits ->
            [pathfinder_amount |-> awards \div 2,
             challenger_amount |-> awards - awards \div 2,
             maybe_score |-> Some(challenge.score)]
      [] challenge.status = "ARBITRATION" /\ ~challenge.joint_benefits ->
            [pathfinder_amount |-> awards, challenger_amount |-> 0,
             maybe_score |-> Some(challenge.score)]

\* The match on challenge.status: the two amounts and maybe_score.
harvest_split(challenge, awards) ==
    CASE challenge.status \in {"FREE", "REPLY"} ->
            [pathfinder_amount |-> awards, challenger_amount |-> 0,
             maybe_score |-> None]
      [] challenge.status \in {"EXAMINE", "EVIDENCE"} ->
            [pathfinder_amount |-> 0, challenger_amount |-> awards,
             maybe_score |-> Some(challenge.score)]
      [] challenge.status = "ARBITRATION" /\ challenge.joint_benefits ->
            [pathfinder_amount |-> awards \div 2,
             challenger_amount |-> saturating_sub(awards, awards \div 2),
             maybe_score |-> None]
      [] challenge.status = "ARBITRATION" /\ ~challenge.joint_benefits ->
            [pathfinder_amount |-> awards, challenger_amount |-> 0,
             maybe_score |-> Some(challenge.score)]

\* The three guarded releases, in order; each one passes sweeper_fee.
harvest_releases(challenge, who, sweeper_fee, pathfinder_amount, challenger_amount) ==
    (IF sweeper_fee > 0 THEN << Release(who, sweeper_fee) >> ELSE << >>)
    \o (IF pathfinder_amount > 0
        THEN << Release(challenge.pathfinder, sweeper_fee) >> ELSE << >>)
    \o (IF challenger_amount > 0
        THEN << Release(challenge.challenger, sweeper_fee) >> ELSE << >>)

harvest(who, target, cfail) ==
    LET challenge == get_metadata(target)
        total == total_amount(challenge)
    IN  IF total = None
        THEN Outcome("Overflow", None, Metadatas[target], << >>)
        ELSE
        LET fa == checked_sweeper_fee(challenge, who, total[1])
        IN  IF fa = None
            THEN Outcome("TooSoon", None, Metadatas[target], << >>)
            ELSE
            LET sweeper_fee == fa[1][1]
                awards == fa[1][2]
                sp == harvest_split(challenge, awards)
                calls == harvest_releases(challenge, who, sweeper_fee,
                                          sp.pathfinder_amount, sp.challenger_amount)
            IN  IF CurrencyFails(calls, cfail)
                THEN Outcome("CurrencyError", None, Metadatas[target],
                             Performed(calls, cfail))
                ELSE Outcome("Ok", sp.maybe_score, None, calls)

-----------------------------------------------------------------------------
(* new                                                                      *)

\* The closure given to try_mutate: Some(record) or the error.
new_mutate(m, who, path_finder, fee, staking, quantity, score) ==
    IF ~is_allowed_evidence(m, now)
    THEN [err |-> "NoChallengeAllowed", m |-> m]
    ELSE
    LET s == checked_add(m.pool.staking, staking)
        e == checked_add(m.pool.earnings, fee)
    IN  IF s = None \/ e = None
        THEN [err |-> "Overflow", m |-> m]
        ELSE [err |-> "Ok",
              m |-> [m EXCEPT !.pool.staking = s[1],
                              !.pool.earnings = e[1],
                              !.progress = [owner |-> who, done |-> 0,
                                            total |-> quantity],
                              !.beneficiary = path_finder,
                              !.last_update = now,
                              !.status = "EVIDENCE",
                              !.score = score]]

new(who, path_finder, fee, staking, target, quantity, score, cfail) ==
    LET calls == << Staking(who, CHALLENGE_STAKING_AMOUNT) >>
    IN  IF CurrencyFails(calls, cfail)
        THEN Outcome("CurrencyError", None, Metadatas[target], << >>)
        ELSE
        LET r == new_mutate(get_metadata(target), who, path_finder, fee,
                            staking, quantity, score)
        IN  IF r.err = "Ok"
            THEN Outcome("Ok", None, Some(r.m), calls)
            ELSE Outcome(r.err, None, Metadatas[target], calls)

-----------------------------------------------------------------------------
(* next, question, reply, new_evidence, arbitral                            *)

\* [err, new_done, all_done]. `progress.done + count` is a plain u32 sum:
\* when it exceeds u32::MAX a build with overflow checks panics there and
\* one without wraps; `checks` tells which build runs.
get_new_progress(progress, count, challenger, checks) ==
    LET sum == progress.done + count
        new_done == sum % (U32Max + 1)
    IN  IF ~(count <= MAX_UPDATE_COUNT)
        THEN [err |-> "NoPermission", new_done |-> 0, all_done |-> FALSE]
        ELSE IF sum > U32Max /\ checks
        THEN [err |-> "Panic", new_done |-> 0, all_done |-> FALSE]
        ELSE IF progress.owner /= challenger
        THEN [err |-> "NoPermission", new_done |-> 0, all_done |-> FALSE]
        ELSE IF ~(progress.total >= new_done)
        THEN [err |-> "ErrProgress", new_done |-> 0, all_done |-> FALSE]
        ELSE [err |-> "Ok", new_done |-> new_done,
              all_done |-> progress.total = new_done]

\* `up` is the callback's result: None for Err, Some(value) for Ok(value).
next(who, target, count, up, checks) ==
    IF Metadatas[target] = None
    THEN Outcome("NonExistent", None, None, << >>)
    ELSE
    LET challenge == Metadatas[target][1]
        progress_info == get_new_progress(challenge.progress, count, who, checks)
        args == << challenge.pool.staking, challenge.remark,
                   progress_info.all_done >>
    IN  IF progress_info.err /= "Ok"
        THEN Outcome(progress_info.err, None, Metadatas[target], << >>)
        ELSE IF up = None
        THEN Handed(args,
                 Outcome("CallbackError", None, Metadatas[target], << >>))
        ELSE Handed(args,
                 Outcome("Ok", None,
                         Some([challenge EXCEPT
                                 !.progress.done = progress_info.new_done,
                                 !.beneficiary =
                                     IF progress_info.all_done THEN who ELSE @,
                                 !.remark = up[1]]),
                         << >>))

question(who, target, index) ==
    IF Metadatas[target] = None
    THEN Outcome("NonExistent", None, None, << >>)
    ELSE
    LET challenge == Metadatas[target][1]
    IN  IF ~(challenge.status = "REPLY" /\ is_all_done(challenge))
        THEN Outcome("NoChallengeAllowed", None, Metadatas[target], << >>)
        ELSE IF ~is_challenger(challenge, who)
        THEN Outcome("NoChallengeAllowed", None, Metadatas[target], << >>)
        ELSE Outcome("Ok", None,
                     Some([challenge EXCEPT !.status = "EXAMINE",
                                            !.remark = index,
                                            !.beneficiary = who]),
                     << >>)

\* `up` is TRUE when the callback returns Ok(()).
reply(who, target, total, count, up) ==
    IF Metadatas[target] = None
    THEN Outcome("NonExistent", None, None, << >>)
    ELSE
    LET challenge == Metadatas[target][1]
        c1 == next_progress(new_progress(challenge, total), count, who)
        c2 == IF ~is_all_done(c1) THEN [c1 EXCEPT !.status = "REPLY"] ELSE c1
    IN  IF ~is_pathfinder(challenge, who)
        THEN Outcome("NoPermission", None, Metadatas[target], << >>)
        ELSE IF challenge.status /= "EXAMINE"
        THEN Outcome("NoPermission", None, Metadatas[target], << >>)
        ELSE IF ~check_progress(c1)
        THEN Outcome("TooMany", None, Metadatas[target], << >>)
        ELSE IF ~up
        THEN Handed(<< is_all_done(c1), c1.remark >>,
                 Outcome("CallbackError", None, Metadatas[target], << >>))
        ELSE Handed(<< is_all_done(c1), c1.remark >>,
                 Outcome("Ok", None, Some(c2), << >>))

\* new_evidence whose restart leaves the pathfinder in place.
new_evidence_keeps_pathfinder(who, target, up) ==
    IF Metadatas[target] = None
    THEN Outcome("NoPermission", None, None, << >>)
    ELSE
    LET challenge == Metadatas[target][1]
    IN  IF ~is_challenger(challenge, who)
        THEN Outcome("NoPermission", None, Metadatas[target], << >>)
        ELSE IF ~is_all_done(challenge)
        THEN Outcome("NoPermission", None, Metadatas[target], << >>)
        ELSE IF up = None
        THEN Handed(<< challenge.remark, challenge.score >>,
                 Outcome("CallbackError", None, Metadatas[target], << >>))
        ELSE IF up[1]
        THEN Handed(<< challenge.remark, challenge.score >>,
                 Outcome("Ok", None,
                         Some([challenge EXCEPT !.status = "ARBITRATION"]),
                         << >>))
        ELSE Handed(<< challenge.remark, challenge.score >>,
                 Outcome("Ok", Some(challenge.score),
                         Some(restart(challenge, FALSE)), << >>))

\* `up` is None for Err, Some(needs_arbitration) for Ok.
new_evidence(who, target, up) ==
    IF Metadatas[target] = None
    THEN Outcome("NoPermission", None, None, << >>)
    ELSE
    LET challenge == Metadatas[target][1]
    IN  IF ~is_challenger(challenge, who)
        THEN Outcome("NoPermission", None, Metadatas[target], << >>)
        ELSE IF ~is_all_done(challenge)
        THEN Outcome("NoPermission", None, Metadatas[target], << >>)
        ELSE IF up = None
        THEN Handed(<< challenge.remark, challenge.score >>,
                 Outcome("CallbackError", None, Metadatas[target], << >>))
        ELSE IF up[1]
        THEN Handed(<< challenge.remark, challenge.score >>,
                 Outcome("Ok", None,
                         Some([challenge EXCEPT !.status = "ARBITRATION"]),
                         << >>))
        ELSE Handed(<< challenge.remark, challenge.score >>,
                 Outcome("Ok", Some(challenge.score),
                         Some(restart(challenge, TRUE)), << >>))

\* arbitral that releases the arbitral fee without taking it from the pool.
arbitral_no_debit(who, target, score, up, cfail) ==
    IF Metadatas[target] = None
    THEN Outcome("NonExistent", None, None, << >>)
    ELSE
    LET challenge == Metadatas[target][1]
    IN  IF ~is_all_done(challenge)
        THEN Outcome("NoPermission", None, Metadatas[target], << >>)
        ELSE IF up = None
        THEN Handed(<< challenge.remark >>,
                 Outcome("CallbackError", None, Metadatas[target], << >>))
        ELSE
        LET joint_benefits == up[1][1]
            restart_ == up[1][2]
            arbitral_fee == challenge.pool.staking \div 2
            calls == << Release(who, arbitral_fee) >>
            paid == challenge
        IN  Handed(<< challenge.remark >>,
            IF restart_ /\ joint_benefits
            THEN IF CurrencyFails(calls, cfail)
                 THEN Outcome("CurrencyError", None, Metadatas[target], << >>)
                 ELSE Outcome("Ok", None, Some(restart(paid, FALSE)), calls)
            ELSE IF restart_
            THEN Outcome("Ok", None, Some(restart(challenge, TRUE)), << >>)
            ELSE Outcome("Ok", None,
                         Some([challenge EXCEPT
                                 !.joint_benefits =
                                     IF joint_benefits THEN TRUE ELSE @,
                                 !.score = score]),
                         << >>))

\* `up` is None for Err, Some(<< joint_benefits, restart >>) for Ok.
arbitral(who, target, score, up, cfail) ==
    IF Metadatas[target] = None
    THEN Outcome("NonExistent", None, None, << >>)
    ELSE
    LET challenge == Metadatas[target][1]
    IN  IF ~is_all_done(challenge)
        THEN Outcome("NoPermission", None, Metadatas[target], << >>)
        ELSE IF up = None
        THEN Handed(<< challenge.remark >>,
                 Outcome("CallbackError", None, Metadatas[target], << >>))
        ELSE
        LET joint_benefits == up[1][1]
            restart_ == up[1][2]
            arbitral_fee == challenge.pool.staking \div 2
            calls == << Release(who, arbitral_fee) >>
            paid == [challenge EXCEPT !.pool.staking = @ - arbitral_fee]
        IN  Handed(<< challenge.remark >>,
            IF restart_ /\ joint_benefits
            THEN IF CurrencyFails(calls, cfail)
                 THEN Outcome("CurrencyError", None, Metadatas[target], << >>)
                 ELSE Outcome("Ok", None, Some(restart(paid, FALSE)), calls)
            ELSE IF restart_
            THEN Outcome("Ok", None, Some(restart(challenge, TRUE)), << >>)
            ELSE Outcome("Ok", None,
                         Some([challenge EXCEPT
                                 !.joint_benefits =
                                     IF joint_benefits THEN TRUE ELSE @,
                                 !.score = score]),
                         << >>))

-----------------------------------------------------------------------------
(* The state machine.                                                      *)

\* `last` after a call: what was called, by whom, at which block, on which
\* stored value, and what came of it.
Called(op, who, target, o) ==
    [op |-> op, who |-> who, target |-> target, at |-> now,
     pre |-> Metadatas[target], fresh |-> target \in untouched,
     result |-> o.result, ret |-> o.ret, calls |-> o.calls, cb |-> o.cb]

Apply(op, who, target, o) ==
    /\ Metadatas' = [Metadatas EXCEPT ![target] = o.meta]
    /\ untouched' =
           IF o.result /= "Ok" THEN untouched
           ELSE IF op = "new" /\ Metadatas[target] = None
           THEN untouched \cup {target}
           ELSE untouched \ {target}
    /\ last' = Called(op, who, target, o)
    /\ UNCHANGED << now, hashVars, pathVars >>

Init ==
    /\ now = 100
    /\ Metadatas = [t \in Targets |-> None]
    /\ untouched = {}
    /\ last = [op |-> "init", who |-> Default, target |-> "t",
               at |-> 100, pre |-> None, fresh |-> FALSE, result |-> "Ok", ret |-> None,
               calls |-> << >>, cb |-> None]
    /\ NoCommitments

\* on_initialize of the next block the clock visits; no call is made.
AdvanceBlock ==
    /\ \E b \in Blocks : b > now /\ now' = b
    /\ last' = [op |-> "block", who |-> Default, target |-> "t",
                at |-> now', pre |-> None, fresh |-> FALSE,
                result |-> "Ok", ret |-> None, calls |-> << >>,
               cb |-> None]
    /\ UNCHANGED << Metadatas, untouched, hashVars, pathVars >>

Harvest ==
    \E who \in Accounts, target \in Targets, cfail \in 0 .. 3 :
        Apply("harvest", who, target, harvest(who, target, cfail))

New ==
    \E who \in Accounts, path_finder \in PathFinders, fee \in Fees,
       staking \in Stakings, target \in Targets, quantity \in Quantities,
       score \in NewScores, cfail \in 0 .. 1 :
        Apply("new", who, target,
              new(who, path_finder, fee, staking, target, quantity, score, cfail))

NextUpload ==
    \E who \in Accounts, target \in Targets, count \in Quantities,
       up \in {None} \cup {Some(r) : r \in Remarks}, checks \in BOOLEAN :
        Apply("next", who, target,
              next(who, target, count, up, checks))

Question ==
    \E who \in Accounts, target \in Targets, index \in Remarks :
        Apply("question", who, target,
              question(who, target, index))

Reply ==
    \E who \in Accounts, target \in Targets, total \in Quantities,
       count \in Quantities, up \in BOOLEAN :
        Apply("reply", who, target,
              reply(who, target, total, count, up))

NewEvidence ==
    \E who \in Accounts, target \in Targets,
       up \in {None, Some(TRUE), Some(FALSE)} :
        Apply("new_evidence", who, target,
              new_evidence(who, target, up))

Arbitral ==
    \E who \in Accounts, target \in Targets, score \in ArbitralScores,
       up \in {None} \cup {Some(<< j, r >>) : j \in BOOLEAN, r \in BOOLEAN},
       cfail \in 0 .. 1 :
        Apply("arbitral", who, target,
              arbitral(who, target, score, up, cfail))

Next ==
    \/ AdvanceBlock
    \/ Harvest
    \/ New
    \/ NextUpload
    \/ Question
    \/ Reply
    \/ NewEvidence
    \/ Arbitral

Spec == Init /\ [][Next]_vars

-----------------------------------------------------------------------------
(* The operations on a stored record, for every value of the record.       *)
(*                                                                         *)
(* `new` stores status EVIDENCE and leaves challenger and pathfinder at    *)
(* AccountId::default(), and no operation stores EXAMINE or REPLY from     *)
(* there, so under Spec no reply and no question ever gets past its first  *)
(* checks. SpecGame starts from a stored record of any status, with any    *)
(* accounts in its three roles and with progress at the edges of its       *)
(* range (or from no record), and applies to it, in one block, the five    *)
(* operations that work on an existing record, with totals and counts on   *)
(* both sides of MAX_UPDATE_COUNT.                                         *)

\* The block of SpecGame, and the block its records were opened in: the
\* challenge period of the record has elapsed, the sweeper period has not.
GameOpened == 101
GameBlock == GameOpened + ChallengePerior + 1

\* << total, done >> with done <= total, as get_new_progress and reply keep it.
GameProgress ==
    {<< 0, 0 >>, << MAX_UPDATE_COUNT, 0 >>, << MAX_UPDATE_COUNT, MAX_UPDATE_COUNT >>,
     << 12, 0 >>, << U32Max, U32Max - 1 >>}

GameRecords ==
    { [DefaultMetadata EXCEPT
          !.pool = [staking |-> CHALLENGE_STAKING_AMOUNT, sub_staking |-> 0,
                    earnings |-> 126],
          !.progress = [owner |-> "alice", total |-> g[1], done |-> g[2]],
          !.last_update = GameOpened,
          !.score = 5,
          !.pathfinder = p,
          !.status = s,
          !.challenger = c] :
        g \in GameProgress, p \in Accounts, c \in Accounts,
        s \in {"FREE", "EXAMINE", "REPLY", "EVIDENCE", "ARBITRATION"} }

GameTotals == {0, MAX_UPDATE_COUNT, 12, U32Max}
GameCounts == {0, MAX_UPDATE_COUNT, MAX_UPDATE_COUNT + 1}

InitGame ==
    /\ now = GameBlock
    /\ \E m \in {None} \cup {Some(r) : r \in GameRecords} :
           Metadatas = [t \in Targets |-> m]
    /\ untouched = {}
    /\ last = [op |-> "init", who |-> Default, target |-> "t",
               at |-> GameBlock, pre |-> None, fresh |-> FALSE,
               result |-> "Ok", ret |-> None, calls |-> << >>,
               cb |-> None]
    /\ NoCommitments

GameNext ==
    \E who \in Accounts, target \in Targets, count \in GameCounts,
       up \in {None, Some(1)}, checks \in BOOLEAN :
        Apply("next", who, target, next(who, target, count, up, checks))

GameQuestion ==
    \E who \in Accounts, target \in Targets, index \in Remarks :
        Apply("question", who, target, question(who, target, index))

GameReply ==
    \E who \in Accounts, target \in Targets, total \in GameTotals,
       count \in GameCounts, up \in BOOLEAN :
        Apply("reply", who, target, reply(who, target, total, count, up))

GameNewEvidence ==
    \E who \in Accounts, target \in Targets,
       up \in {None, Some(TRUE), Some(FALSE)} :
        Apply("new_evidence", who, target, new_evidence(who, target, up))

GameArbitral ==
    \E who \in Accounts, target \in Targets, score \in ArbitralScores,
       up \in {None} \cup {Some(<< j, r >>) : j \in BOOLEAN, r \in BOOLEAN},
       cfail \in 0 .. 1 :
        Apply("arbitral", who, target, arbitral(who, target, score, up, cfail))

NextGame ==
    \/ GameNext
    \/ GameQuestion
    \/ GameReply
    \/ GameNewEvidence
    \/ GameArbitral

SpecGame == InitGame /\ [][NextGame]_vars

-----------------------------------------------------------------------------
(* Uploads with their arguments on record.                                 *)
(*                                                                         *)
(* SpecUpload starts where SpecGame starts and applies reply and next, the *)
(* two operations that move progress; `last` then also holds `args`, the   *)
(* arguments of the call, for failing calls as for successful ones.        *)

CalledWith(op, who, target, o, args) ==
    [op |-> op, who |-> who, target |-> target, at |-> now,
     pre |-> Metadatas[target], fresh |-> target \in untouched,
     result |-> o.result, ret |-> o.ret, calls |-> o.calls, cb |-> o.cb,
     args |-> args]

ApplyWith(op, who, target, o, args) ==
    /\ Metadatas' = [Metadatas EXCEPT ![target] = o.meta]
    /\ untouched' = IF o.result /= "Ok" THEN untouched ELSE untouched \ {target}
    /\ last' = CalledWith(op, who, target, o, args)
    /\ UNCHANGED << now, hashVars, pathVars >>

UploadReply ==
    \E who \in Accounts, target \in Targets, total \in GameTotals,
       count \in GameCounts, up \in BOOLEAN :
        ApplyWith("reply", who, target, reply(who, target, total, count, up),
                  [total |-> total, count |-> count, up |-> up])

UploadNext ==
    \E who \in Accounts, target \in Targets, count \in GameCounts,
       up \in {None, Some(1)}, checks \in BOOLEAN :
        ApplyWith("next", who, target, next(who, target, count, up, checks),
                  [count |-> count, up |-> up, checks |-> checks])

NextUploads ==
    \/ UploadReply
    \/ UploadNext

SpecUpload == InitGame /\ [][NextUploads]_vars

-----------------------------------------------------------------------------
(* The commitment levels (refresh-seeds).                                  *)
(*                                                                         *)
(* ResultHashsSets[target] is a Vec<OrderedSet<ResultHash>>: a sequence of *)
(* levels, each the sequence of cells an OrderedSet holds. OrderedSet,     *)
(* ResultHash, PostResultHash, DEEP and RANGE are defined outside the      *)
(* files at hand; they are modelled as the specification describes them:   *)
(* a level is sorted by the byte order of `order` and holds one cell per   *)
(* `order`.                                                                *)

\* Largest number of levels, and the length of a cell's `order`.
DEEP == 3
RANGE == 2
\* Stand-in for u64::MAX: the checked_add of the scores fails above it.
U64Max == 3

\* Vec<u8> compared as Rust compares slices: bytewise, a prefix first.
RECURSIVE bytes_less(_, _)
bytes_less(a, b) ==
    IF b = << >> THEN FALSE
    ELSE IF a = << >> THEN TRUE
    ELSE IF Head(a) /= Head(b) THEN Head(a) < Head(b)
    ELSE bytes_less(Tail(a), Tail(b))

\* One cell put into a sorted level; a cell whose order is there is dropped.
RECURSIVE insert_cell(_, _)
insert_cell(level, cell) ==
    IF level = << >> THEN << cell >>
    ELSE IF Head(level).order = cell.order THEN level
    ELSE IF bytes_less(cell.order, Head(level).order) THEN << cell >> \o level
    ELSE << Head(level) >> \o insert_cell(Tail(level), cell)

\* OrderedSet::from(Vec): sorted by order, one cell per order.
RECURSIVE OrderedSet_from(_)
OrderedSet_from(cells) ==
    IF cells = << >> THEN << >>
    ELSE insert_cell(OrderedSet_from(SubSeq(cells, 1, Len(cells) - 1)),
                     cells[Len(cells)])

\* PostResultHash::to_result_hash, field by field.
to_result_hash(h) == [order |-> h.order, score |-> h.score, hash |-> h.hash]

to_result_hashs(hashs) == [i \in 1 .. Len(hashs) |-> to_result_hash(hashs[i])]

\* The try_fold of verify_result_hashs from `acc` on: [err, acc].
RECURSIVE fold_score(_, _)
fold_score(cells, acc) ==
    IF cells = << >> THEN [err |-> "Ok", acc |-> acc]
    ELSE IF Len(Head(cells).order) /= RANGE
    THEN [err |-> "OrderNotMatch", acc |-> acc]
    ELSE IF acc + Head(cells).score > U64Max
    THEN [err |-> "Overflow", acc |-> acc]
    ELSE fold_score(Tail(cells), acc + Head(cells).score)

\* "Ok" or the error; "Panic" is the index out of the parent level's bounds.
\* `index` counts from 0, the sequences of the model from 1.
verify_result_hashs(result_hashs, index, target) ==
    LET deep == Len(result_hashs)
    IN  IF deep = 0 THEN "Ok"
        ELSE
        LET fold == fold_score(result_hashs[deep], 0)
        IN  IF fold.err /= "Ok" THEN fold.err
            ELSE IF deep = 1
            THEN IF fold.acc = Candidates[target].score
                 THEN "Ok" ELSE "ScoreMismatch"
            ELSE IF index >= Len(result_hashs[deep - 1]) THEN "Panic"
            ELSE IF fold.acc = result_hashs[deep - 1][index + 1].score
                 THEN "Ok" ELSE "ScoreMismatch"

\* The outcome of a call on the commitments: its result and the levels
\* stored for the target when it ends.
HashOutcome(result, sets) == [result |-> result, sets |-> sets]

\* insert_hash with the bound let through at DEEP levels.
insert_hash_at_deep(target, hash_set) ==
    LET c == ResultHashsSets[target]
    IN  IF ~(Len(c) <= DEEP)
        THEN HashOutcome("MaximumDepth", c)
        ELSE HashOutcome("Ok", Append(c, hash_set))

insert_hash(target, hash_set) ==
    LET c == ResultHashsSets[target]
    IN  IF ~(Len(c) < DEEP)
        THEN HashOutcome("MaximumDepth", c)
        ELSE HashOutcome("Ok", Append(c, hash_set))

\* The match on `next`: [err, sets], the local r_hashs_sets after it.
update_levels(r_hashs_sets, new_r_hashs, next_) ==
    LET current_deep == Len(r_hashs_sets)
    IN  IF next_
        THEN IF ~(current_deep <= DEEP)
             THEN [err |-> "MaximumDepth", sets |-> r_hashs_sets]
             ELSE IF r_hashs_sets = << >>
             THEN [err |-> "DataEmpty", sets |-> r_hashs_sets]
             ELSE
             LET r_hashs_vec == r_hashs_sets[current_deep] \o new_r_hashs
                 full_hashs_set == OrderedSet_from(r_hashs_vec)
             IN  IF Len(r_hashs_vec) /= Len(full_hashs_set)
                 THEN [err |-> "DataDuplication", sets |-> r_hashs_sets]
                 ELSE [err |-> "Ok",
                       sets |-> [r_hashs_sets EXCEPT
                                    ![current_deep] = full_hashs_set]]
        ELSE IF ~(current_deep < DEEP)
             THEN [err |-> "MaximumDepth", sets |-> r_hashs_sets]
             ELSE
             LET r_hashs_set == OrderedSet_from(new_r_hashs)
             IN  IF Len(new_r_hashs) /= Len(r_hashs_set)
                 THEN [err |-> "DataDuplication", sets |-> r_hashs_sets]
                 ELSE [err |-> "Ok", sets |-> Append(r_hashs_sets, r_hashs_set)]

\* update_result_hashs that verifies whatever do_verify is asked.
update_result_hashs_unverified(target, hashs, do_verify, index, next_) ==
    LET u == update_levels(ResultHashsSets[target], to_result_hashs(hashs),
                           next_)
    IN  IF u.err /= "Ok"
        THEN HashOutcome(u.err, ResultHashsSets[target])
        ELSE HashOutcome("Ok", u.sets)

update_result_hashs(target, hashs, do_verify, index, next_) ==
    LET u == update_levels(ResultHashsSets[target], to_result_hashs(hashs),
                           next_)
        v == verify_result_hashs(u.sets, index, target)
    IN  IF u.err /= "Ok"
        THEN HashOutcome(u.err, ResultHashsSets[target])
        ELSE IF do_verify /\ v /= "Ok"
        THEN HashOutcome(v, ResultHashsSets[target])
        ELSE HashOutcome("Ok", u.sets)

\* The cells a caller uploads: two orders of RANGE bytes and one that is too
\* short, with scores 1 and 2.
PostCell(order, score) == [order |-> order, score |-> score, hash |-> 0]

PostHashs ==
    { << PostCell(<< 0, 1 >>, 1) >>,
      << PostCell(<< 0, 1 >>, 2) >>,
      << PostCell(<< 0, 2 >>, 1) >>,
      << PostCell(<< 0, 2 >>, 1), PostCell(<< 0, 1 >>, 1) >>,
      << PostCell(<< 0, 1 >>, 1), PostCell(<< 0, 1 >>, 2) >>,
      << PostCell(<< 1 >>, 1) >> }

\* The OrderedSet values given to insert_hash.
HashSets ==
    { OrderedSet_from(to_result_hashs(h)) :
        h \in { << PostCell(<< 0, 1 >>, 2) >>,
                << PostCell(<< 0, 2 >>, 1), PostCell(<< 0, 1 >>, 1) >> } }

CandidateScores == {2, 3}

\* `lastHash` after a call.
HashCalled(op, target, do_verify, index, o) ==
    [op |-> op, target |-> target, do_verify |-> do_verify, index |-> index,
     result |-> o.result]

ApplyHash(op, target, do_verify, index, o) ==
    /\ ResultHashsSets' = [ResultHashsSets EXCEPT ![target] = o.sets]
    /\ lastHash' = HashCalled(op, target, do_verify, index, o)
    /\ UNCHANGED << Candidates, challengeVars, pathVars >>

\* No level is stored; the candidate of each target has its score.
InitHashs ==
    /\ now = 100
    /\ Metadatas = [t \in Targets |-> None]
    /\ untouched = {}
    /\ last = [op |-> "init", who |-> Default, target |-> "t",
               at |-> 100, pre |-> None, fresh |-> FALSE,
               result |-> "Ok", ret |-> None, calls |-> << >>,
               cb |-> None]
    /\ ResultHashsSets = [t \in Targets |-> << >>]
    /\ \E c \in CandidateScores :
           /\ Candidates = [t \in Targets |-> [score |-> c, pathfinder |-> Default]]
           /\ ScoreList = [i \in 1 .. Cardinality(Targets) |-> c]
    /\ lastHash = NoHashCall
    /\ NoPaths

InsertHash ==
    \E target \in Targets, hash_set \in HashSets :
        ApplyHash("insert_hash", target, FALSE, 0,
                  insert_hash(target, hash_set))

UpdateResultHashs ==
    \E target \in Targets, hashs \in PostHashs, do_verify \in BOOLEAN,
       index \in 0 .. 1, next_ \in BOOLEAN :
        ApplyHash("update_result_hashs", target, do_verify, index,
                  update_result_hashs(target, hashs, do_verify, index, next_))

\* remove_challenge: the paths, the levels and the missed path of a target
\* are dropped.
RemoveChallenge ==
    \E target \in Targets :
        /\ ResultHashsSets[target] /= << >>
        /\ Paths' = [Paths EXCEPT ![target] = None]
        /\ ResultHashsSets' = [ResultHashsSets EXCEPT ![target] = << >>]
        /\ MissedPaths' = [MissedPaths EXCEPT ![target] = None]
        /\ lastHash' = [NoHashCall EXCEPT !.op = "remove_challenge"]
        /\ UNCHANGED << Candidates, ScoreList, lastPath, challengeVars >>

NextHashs ==
    \/ InsertHash
    \/ UpdateResultHashs
    \/ RemoveChallenge

SpecHashs == InitHashs /\ [][NextHashs]_vars

-----------------------------------------------------------------------------
(* Vocabulary of the properties.                                           *)

\* The record the latest call read: the stored one, or the default.
LastPre == IF last.pre = None THEN DefaultMetadata ELSE last.pre[1]

\* staking + sub_staking + earnings as a number, with no width.
PoolTotal(m) == m.pool.staking + m.pool.sub_staking + m.pool.earnings

\* The amount the "release" calls of `calls` released to the accounts `accts`.
RECURSIVE ReleasedSum(_, _)
ReleasedSum(calls, accts) ==
    IF calls = << >> THEN 0
    ELSE (IF Head(calls)[1] = "release" /\ Head(calls)[2] \in accts
          THEN Head(calls)[3] ELSE 0)
         + ReleasedSum(Tail(calls), accts)

\* The latest step is a harvest, and it returned Ok.
HarvestOk == last.op = "harvest" /\ last.result = "Ok"

\* The caller of the latest call is the read record's challenger or pathfinder.
LastByParty == last.who \in {LastPre.challenger, LastPre.pathfinder}

\* floor(2% of x)
TwoPercent(x) == (x * 2) \div 100

\* The sweeper fee a successful harvest by last.who is due.
LastFee == IF LastByParty THEN 0 ELSE TwoPercent(PoolTotal(LastPre))

LastAwards == PoolTotal(LastPre) - LastFee

\* The settlement table: << pathfinder_amount, challenger_amount >>.
TableAmounts(m, awards) ==
    IF m.status \in {"FREE", "REPLY"} THEN << awards, 0 >>
    ELSE IF m.status \in {"EXAMINE", "EVIDENCE"} THEN << 0, awards >>
    ELSE IF m.joint_benefits THEN << awards \div 2, awards - awards \div 2 >>
    ELSE << awards, 0 >>

-----------------------------------------------------------------------------
\* C1: every successful harvest releases, over the sweeper, the pathfinder
\* and the challenger together, exactly the pool total staking + sub_staking
\* + earnings of the record it settles.
C1_Conservation ==
    HarvestOk => ReleasedSum(last.calls, Accounts) = PoolTotal(LastPre)

\* C2: on every successful harvest the pathfinder's account is released
\* pathfinder_amount and the challenger's account challenger_amount, as the
\* settlement table gives them from awards = total - sweeper fee (an account
\* holding both roles is released both amounts).
C2_PartyAmounts ==
    HarvestOk =>
        LET amounts == TableAmounts(LastPre, LastAwards)
        IN  \A a \in {LastPre.pathfinder, LastPre.challenger} :
                ReleasedSum(last.calls, {a}) =
                    (IF a = LastPre.pathfinder THEN amounts[1] ELSE 0)
                    + (IF a = LastPre.challenger THEN amounts[2] ELSE 0)
                    + (IF a = last.who THEN LastFee ELSE 0)

\* C3: a successful harvest returns Some(score of the record) exactly when
\* the status is Examine or Evidence, or Arbitration without joint benefits,
\* and None in status Free, Reply and Arbitration with joint benefits.
C3_ReturnsScore ==
    HarvestOk =>
        IF \/ LastPre.status \in {"EXAMINE", "EVIDENCE"}
           \/ (LastPre.status = "ARBITRATION" /\ ~LastPre.joint_benefits)
        THEN last.ret = Some(LastPre.score)
        ELSE last.ret = None

\* Reached for C3: a harvest of a record in Arbitration without joint benefits
\* returned the score an arbitral call had settled.
C3_Witness ==
    /\ HarvestOk
    /\ last.pre /= None
    /\ LastPre.status = "ARBITRATION"
    /\ ~LastPre.joint_benefits
    /\ LastPre.score \in ArbitralScores
    /\ last.ret = Some(LastPre.score)

\* C4: a harvest by the record's challenger or pathfinder fails with TooSoon
\* while last_update + ChallengePerior > now, and is not refused as too soon
\* once last_update + ChallengePerior < now.
C4_PartyGate ==
    (last.op = "harvest" /\ last.pre /= None /\ LastByParty) =>
        /\ (LastPre.last_update + ChallengePerior > last.at
                => last.result = "TooSoon")
        /\ (LastPre.last_update + ChallengePerior < last.at
                => last.result /= "TooSoon")

\* C5: a harvest by an account that is neither challenger nor pathfinder
\* fails with TooSoon unless last_update + 500 < now; when it is allowed the
\* fee is floor(2% of total) and the awards total - fee, so that both add up
\* to total, and a successful harvest releases that fee to the caller.
C5_SweeperRule ==
    (last.op = "harvest" /\ ~LastByParty /\ PoolTotal(LastPre) <= BalanceMax) =>
        LET total == PoolTotal(LastPre)
            fee == TwoPercent(total)
            allowed == LastPre.last_update + 500 < last.at
            computed == checked_sweeper_fee(LastPre, last.who, total)
        IN  /\ ~allowed => (last.result = "TooSoon" /\ computed = None)
            /\ allowed =>
                  /\ last.result \in {"Ok", "CurrencyError"}
                  /\ computed = Some(<< fee, total - fee >>)
                  /\ computed[1][1] + computed[1][2] = total
                  /\ \A x \in 0 .. BalanceMax :
                        /\ with_fee(x) = << TwoPercent(x), x - TwoPercent(x) >>
                        /\ with_fee(x)[1] + with_fee(x)[2] = x
            /\ last.result = "Ok" =>
                  /\ ReleasedSum(last.calls, {last.who}) = fee
                  /\ fee > 0 => Head(last.calls) = Release(last.who, fee)

\* Reached for C5: the first block a sweeper is allowed in, on a pool whose
\* 2% is not a whole number.
C5_Witness ==
    /\ HarvestOk
    /\ last.pre /= None
    /\ ~LastByParty
    /\ last.at = LastPre.last_update + SWEEPER_PERIOD + 1
    /\ PoolTotal(LastPre) % 50 /= 0
    /\ TwoPercent(PoolTotal(LastPre)) > 0
    /\ Head(last.calls) = Release(last.who, TwoPercent(PoolTotal(LastPre)))

C8_NoGateWithoutRecord ==
    (last.op = "new" /\ last.pre = None) =>
        last.result \in {"Ok", "CurrencyError"}

\* C9: in the block whose `new` set last_update, neither a second `new` nor
\* a harvest by the challenger or the pathfinder succeeds on that record.
C9_SameBlock ==
    (/\ last.pre /= None
     /\ LastPre.last_update = last.at
     /\ \/ last.op = "new"
        \/ (last.op = "harvest" /\ LastByParty)) =>
        last.result /= "Ok"

\* C10: a `new` or a harvest that returns an error leaves the record as it
\* was and has made no Currency call that took effect.
C10_Atomic ==
    (last.op \in {"new", "harvest"} /\ last.result /= "Ok") =>
        /\ Metadatas[last.target] = last.pre
        /\ last.calls = << >>

\* The operations that advance a record's state.
Advancing == {"new", "reply", "next", "question", "new_evidence", "arbitral"}

\* The record stored under the target of the latest call, when there is one.
LastPost == Metadatas[last.target][1]

\* C12: every successful new, reply, next, question, new_evidence and
\* arbitral leaves the record with last_update equal to the current block
\* number.
C12_LastUpdateBumped ==
    (last.op \in Advancing /\ last.result = "Ok") =>
        /\ Metadatas[last.target] /= None
        /\ LastPost.last_update = last.at

\* C17: new_evidence succeeds only on a record whose status is Examine, never
\* on one in status Free, Reply, Evidence or Arbitration.
C17_EvidenceOnlyInExamine ==
    (last.op = "new_evidence" /\ last.result = "Ok") =>
        LastPre.status = "EXAMINE"

\* C18: on a record whose status is not Arbitration, arbitral does not
\* succeed and changes nothing of the record (score, joint_benefits,
\* pathfinder, status and pool included).
C18_ArbitralOnlyInArbitration ==
    (/\ last.op = "arbitral"
     /\ last.pre /= None
     /\ LastPre.status /= "ARBITRATION") =>
        /\ last.result /= "Ok"
        /\ Metadatas[last.target] = last.pre

C13_RoleMonotonicity ==
    /\ (last.op \in Advancing /\ last.pre /= None
            /\ Metadatas[last.target] /= None) =>
          /\ LastPost.challenger = LastPre.challenger
          /\ LastPost.pathfinder /= LastPre.pathfinder =>
                /\ LastPost.pathfinder = LastPre.challenger
                /\ last.result = "Ok"
                /\ LastPost.status = "FREE"
                /\ ~LastPost.joint_benefits
                /\ LastPost.pool = LastPre.pool
                /\ \/ last.op = "new_evidence" /\ last.ret = Some(LastPre.score)
                   \/ last.op = "arbitral" /\ last.calls = << >>
          /\ last.op \in {"reply", "question", "next"} =>
                LastPost.pathfinder = LastPre.pathfinder
          /\ (last.op = "arbitral" /\ last.calls /= << >>) =>
                LastPost.pathfinder = LastPre.pathfinder
          /\ (last.op = "new_evidence" /\ last.result = "Ok"
                  /\ last.ret /= None) =>
                LastPost.pathfinder = LastPre.challenger
    /\ \A who \in Accounts, target \in Targets, score \in ArbitralScores :
          LET o == arbitral(who, target, score, Some(<< FALSE, TRUE >>), 0)
          IN  o.result = "Ok" =>
                  o.meta[1].pathfinder = get_metadata(target).challenger
    /\ \A who \in Accounts, path_finder \in PathFinders, target \in Targets,
          quantity \in GameTotals :
          LET o == new(who, path_finder, 126, CHALLENGE_STAKING_AMOUNT, target,
                       quantity, 5, 0)
          IN  (o.result = "Ok" /\ Metadatas[target] /= None) =>
                  /\ o.meta[1].challenger = Metadatas[target][1].challenger
                  /\ o.meta[1].pathfinder = Metadatas[target][1].pathfinder

\* Reached for C13: a new_evidence that needed no arbitration handed the
\* pathfinder role from another account to the challenger, who stays
\* challenger.
C13_Witness ==
    /\ last.op = "new_evidence"
    /\ last.result = "Ok"
    /\ last.ret /= None
    /\ LastPre.pathfinder /= LastPre.challenger
    /\ LastPost.pathfinder = LastPre.challenger
    /\ LastPost.challenger = LastPre.challenger

\* C14: every stored record has progress.done <= progress.total, and no
\* successful reply or next leaves progress.done smaller than it found it.
C14_Progress ==
    /\ \A t \in Targets :
          Metadatas[t] /= None =>
              Metadatas[t][1].progress.done <= Metadatas[t][1].progress.total
    /\ (last.op \in {"reply", "next"} /\ last.result = "Ok") =>
          LastPost.progress.done >= LastPre.progress.done

\* C19: question(index) by `who` succeeds exactly when the record exists, its
\* status is Reply, progress.done = progress.total and `who` is its
\* challenger; then the stored status is Examine and the stored remark is
\* index; otherwise it fails, with NonExistent when there is no record and
\* NoChallengeAllowed when there is one, and the stored value is unchanged.
C19_Question ==
    /\ \A who \in Accounts, target \in Targets, index \in Remarks :
          LET o == question(who, target, index)
              m == Metadatas[target]
          IN  IF /\ m /= None
                 /\ m[1].status = "REPLY"
                 /\ m[1].progress.done = m[1].progress.total
                 /\ m[1].challenger = who
              THEN /\ o.result = "Ok"
                   /\ o.meta /= None
                   /\ o.meta[1].status = "EXAMINE"
                   /\ o.meta[1].remark = index
              ELSE /\ o.result = (IF m = None THEN "NonExistent"
                                  ELSE "NoChallengeAllowed")
                   /\ o.meta = m
    /\ last.op = "question" =>
          IF last.result = "Ok"
          THEN /\ last.pre /= None
               /\ LastPre.status = "REPLY"
               /\ LastPre.progress.done = LastPre.progress.total
               /\ LastPre.challenger = last.who
               /\ LastPost.status = "EXAMINE"
          ELSE Metadatas[last.target] = last.pre

\* Reached for C19: the challenger, who is not the pathfinder, questioned a
\* completely uploaded level and the record moved from Reply to Examine with
\* a new remark.
C19_Witness ==
    /\ last.op = "question"
    /\ last.result = "Ok"
    /\ LastPre.status = "REPLY"
    /\ LastPre.pathfinder /= last.who
    /\ LastPost.status = "EXAMINE"
    /\ LastPost.remark /= LastPre.remark

-----------------------------------------------------------------------------
(* Vocabulary of the properties of the commitments.                        *)

\* No two cells of `cells` have the same order.
UniqueOrders(cells) ==
    \A i, j \in 1 .. Len(cells) :
        i /= j => cells[i].order /= cells[j].order

\* The scores of `cells` added up, as a number with no width.
RECURSIVE ScoreSum(_)
ScoreSum(cells) ==
    IF cells = << >> THEN 0 ELSE Head(cells).score + ScoreSum(Tail(cells))

\* The parent cell of the deepest level of `sets` exists: the candidate when
\* one level is stored, the cell at `index` of the level above otherwise.
HasParent(sets, index) ==
    Len(sets) = 1 \/ (Len(sets) > 1 /\ index < Len(sets[Len(sets) - 1]))

\* The score of that parent.
ParentScore(sets, index, target) ==
    IF Len(sets) = 1 THEN Candidates[target].score
    ELSE sets[Len(sets) - 1][index + 1].score

\* The deepest level of `sets` adds up to the score of its parent.
Conserved(sets, index, target) ==
    /\ sets /= << >>
    /\ HasParent(sets, index)
    /\ ScoreSum(sets[Len(sets)]) = ParentScore(sets, index, target)

\* The deepest level of `sets` can be added up: every order has RANGE bytes
\* and the sum fits the score's type.
Summable(sets) ==
    /\ sets /= << >>
    /\ \A i \in 1 .. Len(sets[Len(sets)]) :
          Len(sets[Len(sets)][i].order) = RANGE
    /\ ScoreSum(sets[Len(sets)]) <= U64Max

\* C15: at most DEEP levels are stored for a target and no stored level has
\* two cells of the same order; a call that would push a level onto DEEP
\* stored ones fails with MaximumDepth, a push or an extension that would
\* bring a second cell of some order fails with DataDuplication, and both
\* leave the stored levels as they were.
C15_BoundedCommitments ==
    /\ \A t \in Targets :
          /\ Len(ResultHashsSets[t]) <= DEEP
          /\ \A l \in 1 .. Len(ResultHashsSets[t]) :
                UniqueOrders(ResultHashsSets[t][l])
    /\ \A t \in Targets, hash_set \in HashSets :
          Len(ResultHashsSets[t]) = DEEP =>
              insert_hash(t, hash_set)
                  = HashOutcome("MaximumDepth", ResultHashsSets[t])
    /\ \A t \in Targets, hashs \in PostHashs, do_verify \in BOOLEAN,
          index \in 0 .. 1 :
          LET sets == ResultHashsSets[t]
              push == update_result_hashs(t, hashs, do_verify, index, FALSE)
              extend == update_result_hashs(t, hashs, do_verify, index, TRUE)
          IN  /\ Len(sets) = DEEP =>
                    push = HashOutcome("MaximumDepth", sets)
              /\ (Len(sets) < DEEP /\ ~UniqueOrders(hashs)) =>
                    push = HashOutcome("DataDuplication", sets)
              /\ (sets /= << >> /\ ~UniqueOrders(sets[Len(sets)] \o hashs)) =>
                    extend = HashOutcome("DataDuplication", sets)
    /\ lastHash.result = "MaximumDepth" =>
          Len(ResultHashsSets[lastHash.target]) = DEEP

\* Reached for C15: with DEEP levels stored, one of them of two cells, a push
\* was refused with MaximumDepth.
C15_Witness ==
    /\ lastHash.op = "update_result_hashs"
    /\ lastHash.result = "MaximumDepth"
    /\ Len(ResultHashsSets[lastHash.target]) = DEEP
    /\ \E l \in 1 .. DEEP : Len(ResultHashsSets[lastHash.target][l]) = 2

\* C16 as stated: after every successful update_result_hashs, whether it
\* pushed a level or extended the last one, the deepest stored level adds up
\* to the score of its parent (the cell at the selected index of the level
\* above, or the candidate when one level is stored), a call whose sum
\* differs being rejected.
C16_Original ==
    (lastHash.op = "update_result_hashs" /\ lastHash.result = "Ok") =>
        Conserved(ResultHashsSets[lastHash.target], lastHash.index,
                  lastHash.target)

\* C16 as amended: after every successful update_result_hashs that was asked
\* to verify (do_verify = true) the deepest stored level adds up to the score
\* of its parent; a verified push or extension whose level can be added up,
\* whose parent exists and whose sum differs fails with ScoreMismatch; one
\* whose level cannot be added up or whose parent does not exist fails too;
\* and every failed call stores nothing.
C16_ScoreConservation ==
    /\ (/\ lastHash.op = "update_result_hashs"
        /\ lastHash.result = "Ok"
        /\ lastHash.do_verify) =>
          /\ Summable(ResultHashsSets[lastHash.target])
          /\ Conserved(ResultHashsSets[lastHash.target], lastHash.index,
                       lastHash.target)
    /\ \A t \in Targets, hashs \in PostHashs, index \in 0 .. 1,
          next_ \in BOOLEAN :
          LET u == update_levels(ResultHashsSets[t], to_result_hashs(hashs),
                                 next_)
              o == update_result_hashs(t, hashs, TRUE, index, next_)
          IN  /\ o.result /= "Ok" => o.sets = ResultHashsSets[t]
              /\ u.err = "Ok" =>
                    IF Summable(u.sets) /\ HasParent(u.sets, index)
                    THEN o.result =
                             (IF Conserved(u.sets, index, t)
                              THEN "Ok" ELSE "ScoreMismatch")
                    ELSE o.result
                             \in {"OrderNotMatch", "Overflow", "Panic"}

\* Reached for C16: a verified upload left a second level of two cells that
\* adds up to the score of the cell it was selected from.
C16_Witness ==
    /\ lastHash.op = "update_result_hashs"
    /\ lastHash.result = "Ok"
    /\ lastHash.do_verify
    /\ Len(ResultHashsSets[lastHash.target]) >= 2
    /\ Len(ResultHashsSets[lastHash.target]
              [Len(ResultHashsSets[lastHash.target])]) = 2
    /\ Conserved(ResultHashsSets[lastHash.target], lastHash.index,
                 lastHash.target)

-----------------------------------------------------------------------------
(* The pool of a record.                                                   *)

\* The pool of the value stored under a key (a missing key reads as the
\* default record).
PoolOf(stored) == IF stored = None THEN DefaultMetadata.pool ELSE stored[1].pool

\* The pool after half of its staking, rounded down, has been taken out.
HalfStakingOut(pool) ==
    [pool EXCEPT !.staking = pool.staking - (pool.staking \div 2)]

\* C21: the three pool fields change only by a successful `new` (staking and
\* earnings grow by the staking and fee arguments) and by a successful
\* arbitral whose callback returned restart = true and joint_benefits = true
\* (staking goes down by floor(staking / 2), the amount released to the
\* caller); reply, question, next, new_evidence and every failing call
\* leave them as they were.
C21_PoolAccounting ==
    /\ (last.op \in {"next", "question", "reply", "new_evidence", "arbitral"}
          /\ last.pre /= None) =>
            \/ /\ last.result /= "Ok"
               /\ Metadatas[last.target] = last.pre
               /\ last.calls = << >>
            \/ /\ last.result = "Ok"
               /\ PoolOf(Metadatas[last.target]) = PoolOf(last.pre)
               /\ last.calls = << >>
            \/ /\ last.result = "Ok"
               /\ last.op = "arbitral"
               /\ PoolOf(Metadatas[last.target]) =
                      HalfStakingOut(PoolOf(last.pre))
               /\ last.calls =
                      << Release(last.who, PoolOf(last.pre).staking \div 2) >>
    /\ \A who \in Accounts, target \in Targets, score \in ArbitralScores,
          j \in BOOLEAN, r \in BOOLEAN, cfail \in 0 .. 1 :
            LET o == arbitral(who, target, score, Some(<< j, r >>), cfail)
            IN  (Metadatas[target] /= None /\ o.result = "Ok") =>
                    IF j /\ r
                    THEN /\ PoolOf(o.meta) =
                                HalfStakingOut(PoolOf(Metadatas[target]))
                         /\ o.calls =
                                << Release(who,
                                       PoolOf(Metadatas[target]).staking \div 2) >>
                    ELSE /\ PoolOf(o.meta) = PoolOf(Metadatas[target])
                         /\ o.calls = << >>
    /\ \A who \in Accounts, path_finder \in PathFinders, fee \in Fees,
          staking \in Stakings, target \in Targets, quantity \in Quantities,
          score \in NewScores, cfail \in 0 .. 1 :
            LET o == new(who, path_finder, fee, staking, target, quantity,
                         score, cfail)
                pre == PoolOf(Metadatas[target])
            IN  IF o.result = "Ok"
                THEN PoolOf(o.meta) =
                        [pre EXCEPT !.staking = pre.staking + staking,
                                    !.earnings = pre.earnings + fee]
                ELSE o.meta = Metadatas[target]

\* An arbitral with restart and joint_benefits took 1 of a staking of 2 out
\* of the pool and released it to its caller.
C21_Witness ==
    /\ last.op = "arbitral"
    /\ last.result = "Ok"
    /\ PoolOf(last.pre).staking = CHALLENGE_STAKING_AMOUNT
    /\ PoolOf(Metadatas[last.target]).staking = 1
    /\ last.calls = << Release(last.who, 1) >>

\* The amount the "staking" calls of `calls` staked from the accounts `accts`.
RECURSIVE StakedSum(_, _)
StakedSum(calls, accts) ==
    IF calls = << >> THEN 0
    ELSE (IF Head(calls)[1] = "staking" /\ Head(calls)[2] \in accts
          THEN Head(calls)[3] ELSE 0)
         + StakedSum(Tail(calls), accts)

\* C25: on every successful `new` the amount staked from its caller through
\* the Currency equals the amount by which the pool of the record grows.
C25_StakedIsPooled ==
    (last.op = "new" /\ last.result = "Ok") =>
        StakedSum(last.calls, {last.who}) =
            PoolTotal(LastPost) - PoolTotal(LastPre)

\* C26: after a successful new(app, who, path_finder, fee, staking, target,
\* quantity, score) the record has challenger = who, pathfinder =
\* path_finder, beneficiary = path_finder, status Evidence, score = score,
\* last_update = now and progress = {owner: who, total: quantity, done: 0}.
\* (path_finder and score are drawn from the one-element sets PathFinders
\* and NewScores, quantity from Quantities.)
C26_NewPostcondition ==
    (last.op = "new" /\ last.result = "Ok") =>
        /\ LastPost.challenger = last.who
        /\ LastPost.pathfinder \in PathFinders
        /\ LastPost.beneficiary \in PathFinders
        /\ LastPost.status = "EVIDENCE"
        /\ LastPost.score \in NewScores
        /\ LastPost.last_update = now
        /\ LastPost.progress.owner = last.who
        /\ LastPost.progress.total \in Quantities
        /\ LastPost.progress.done = 0

C28_NextUpload ==
    last.op = "next" =>
        IF last.result = "Ok"
        THEN /\ last.pre /= None
             /\ last.who = LastPre.progress.owner
             /\ last.args.count <= MAX_UPDATE_COUNT
             /\ LastPre.progress.done + last.args.count <= LastPre.progress.total
             /\ LastPost.progress.done = LastPre.progress.done + last.args.count
             /\ LastPost.progress.done = LastPost.progress.total =>
                    LastPost.beneficiary = last.who
             /\ LastPost.remark = last.args.up[1]
        ELSE Metadatas[last.target] = last.pre

\* C29: new_evidence by the record's challenger with progress complete
\* hands the record's remark and score to its callback; if the callback
\* reports needs_arbitration the status becomes Arbitration, nothing else
\* changes and None is returned; if it reports none, the status becomes
\* Free, joint_benefits false, pathfinder the challenger, and Some(score) is
\* returned; if the callback fails, the record does not exist, the caller
\* is not the challenger or progress is incomplete, the call fails and the
\* stored value is unchanged.
C29_NewEvidence ==
    /\ \A who \in Accounts, target \in Targets,
          up \in {None, Some(TRUE), Some(FALSE)} :
            LET stored == Metadatas[target]
                o == new_evidence(who, target, up)
            IN  IF stored /= None /\ stored[1].challenger = who
                   /\ stored[1].progress.done = stored[1].progress.total
                THEN /\ o.cb = Some(<< stored[1].remark, stored[1].score >>)
                     /\ up = Some(TRUE) =>
                            /\ o.result = "Ok"
                            /\ o.ret = None
                            /\ o.meta =
                                 Some([stored[1] EXCEPT !.status = "ARBITRATION"])
                     /\ up = Some(FALSE) =>
                            /\ o.result = "Ok"
                            /\ o.ret = Some(stored[1].score)
                            /\ o.meta =
                                 Some([stored[1] EXCEPT
                                         !.status = "FREE",
                                         !.joint_benefits = FALSE,
                                         !.pathfinder = stored[1].challenger])
                     /\ up = None => (o.result /= "Ok" /\ o.meta = stored)
                ELSE /\ o.result /= "Ok"
                     /\ o.cb = None
                     /\ o.meta = stored
    /\ last.op = "new_evidence" =>
          IF last.result = "Ok"
          THEN /\ last.who = LastPre.challenger
               /\ last.cb = Some(<< LastPre.remark, LastPre.score >>)
               /\ last.ret \in {None, Some(LastPre.score)}
               /\ LastPost.status =
                      IF last.ret = None THEN "ARBITRATION" ELSE "FREE"
               /\ LastPost.pathfinder =
                      IF last.ret = None THEN LastPre.pathfinder
                      ELSE LastPre.challenger
          ELSE Metadatas[last.target] = last.pre

\* A new_evidence that needed no arbitration returned the score of a record
\* that shared its benefits and whose pathfinder was another account than
\* its challenger, and the challenger is now the pathfinder.
C29_Witness ==
    /\ last.op = "new_evidence"
    /\ last.result = "Ok"
    /\ last.ret = Some(LastPre.score)
    /\ last.cb = Some(<< LastPre.remark, LastPre.score >>)
    /\ LastPre.joint_benefits
    /\ LastPre.pathfinder /= LastPre.challenger
    /\ LastPost.pathfinder = LastPre.challenger
    /\ LastPost.status = "FREE"
    /\ ~LastPost.joint_benefits

\* C30: a successful arbitral whose callback returned restart = false
\* leaves score = the score argument, joint_benefits = the value the
\* callback returned, true or false, and the status as it was; one whose
\* callback returned restart = true leaves status Free and joint_benefits
\* false, with pathfinder := challenger if joint_benefits was returned false
\* and half of pool.staking released if it was returned true.
C30_Arbitral ==
    \A who \in Accounts, target \in Targets, score \in ArbitralScores,
       j \in BOOLEAN, r \in BOOLEAN, cfail \in 0 .. 1 :
        LET stored == Metadatas[target]
            o == arbitral(who, target, score, Some(<< j, r >>), cfail)
        IN  (stored /= None /\ o.result = "Ok") =>
                IF ~r
                THEN /\ o.meta[1].score = score
                     /\ o.meta[1].joint_benefits = j
                     /\ o.meta[1].status = stored[1].status
                ELSE /\ o.meta[1].status = "FREE"
                     /\ o.meta[1].joint_benefits = FALSE
                     /\ ~j => o.meta[1].pathfinder = stored[1].challenger
                     /\ j => o.calls =
                              << Release(who, stored[1].pool.staking \div 2) >>

-----------------------------------------------------------------------------
(* Paths and omission proofs (refresh-seeds).                              *)
(*                                                                         *)
(* A Path is { nodes: Vec<AccountId>, total: u32 }. TrustBase::valid_nodes *)
(* is the trust graph's answer: `trust` is the set of node sequences it    *)
(* accepts. FullOrder is defined outside the files at hand:                *)
(* whether FullOrder::from_u64(&order, n).0 equals the bytes it is         *)
(* compared with is an input of the call, `order_match`.                   *)

\* The bound of Path.total, as the specification gives it.
MAX_SHORTEST_PATH == 100

\* The last DEEP * RANGE characters of sha1_hasher(encode(start) ++
\* encode(stop)): a fixed table with a different value for each pair of
\* endpoints the model uses.
points_hash(start, stop) ==
    CASE << start, stop >> = << "a", "b" >> -> << 7, 7, 0, 2, 0, 2 >>
      [] << start, stop >> = << "a", "t" >> -> << 7, 7, 0, 4, 0, 0 >>
      [] << start, stop >> = << "t", "b" >> -> << 7, 7, 0, 3, 0, 1 >>
      [] OTHER -> << 7, 7, 0, 0, 0, 4 >>

make_full_order(start, stop, deep) ==
    LET points_hash_ == points_hash(start, stop)
        index == Len(points_hash_) - (deep * RANGE)
    IN  SubSeq(points_hash_, index + 1, Len(points_hash_))

\* "Ok" or the error.
checked_nodes(nodes, target, trust) ==
    IF ~(Len(nodes) >= 2) THEN "PathTooShort"
    ELSE IF ~(\E i \in 1 .. Len(nodes) : nodes[i] = target) THEN "NoTargetNode"
    ELSE IF nodes \notin trust THEN "InvalidNodes"
    ELSE "Ok"

get_nodes_ends(nodes) == << nodes[1], nodes[Len(nodes)] >>

\* "Ok" or the error; "Panic" is nodes.last().unwrap() on a path without
\* nodes.
RECURSIVE checked_paths_vec(_, _, _, _, _)
checked_paths_vec(paths, target, order, deep, trust) ==
    IF paths = << >> THEN "Ok"
    ELSE
    LET p == Head(paths)
    IN  IF ~(p.total > 0 /\ p.total < MAX_SHORTEST_PATH) THEN "PathTooLong"
        ELSE IF p.nodes = << >> THEN "Panic"
        ELSE IF make_full_order(get_nodes_ends(p.nodes)[1],
                                get_nodes_ends(p.nodes)[2], deep) /= order
        THEN "OrderNotMatch"
        ELSE IF checked_nodes(p.nodes, target, trust) /= "Ok"
        THEN checked_nodes(p.nodes, target, trust)
        ELSE checked_paths_vec(Tail(paths), target, order, deep, trust)

\* The try_fold of verify_paths from `acc` on: [err, acc]. "Panic" is the
\* division 100 / p.total by zero.
RECURSIVE fold_paths(_, _, _, _)
fold_paths(paths, target, trust, acc) ==
    IF paths = << >> THEN [err |-> "Ok", acc |-> acc]
    ELSE
    LET p == Head(paths)
    IN  IF checked_nodes(p.nodes, target, trust) /= "Ok"
        THEN [err |-> checked_nodes(p.nodes, target, trust), acc |-> acc]
        ELSE IF ~(p.total < 100) THEN [err |-> "LengthTooLong", acc |-> acc]
        ELSE IF p.total = 0 THEN [err |-> "Panic", acc |-> acc]
        ELSE fold_paths(Tail(paths), target, trust,
                        saturating_add(acc, 100 \div p.total))

\* "Ok" or the error.
verify_paths(paths, target, result_hash, trust) ==
    LET total_score == fold_paths(paths, target, trust, 0)
    IN  IF total_score.err /= "Ok" THEN total_score.err
        ELSE IF total_score.acc /= result_hash.score THEN "ScoreMismatch"
        ELSE "Ok"

\* The loop over the published paths, from `same_ends` on: [err, same_ends].
RECURSIVE same_ends_fold(_, _, _)
same_ends_fold(path_vec, nodes, same_ends) ==
    IF path_vec = << >> THEN [err |-> "Ok", same_ends |-> same_ends]
    ELSE
    LET p == Head(path_vec)
    IN  IF get_nodes_ends(nodes) = get_nodes_ends(p.nodes)
        THEN IF Len(p.nodes) /= Len(nodes)
             THEN [err |-> "LengthNotEqual", same_ends |-> same_ends]
             ELSE IF ~(p.nodes /= nodes)
             THEN [err |-> "AlreadyExist", same_ends |-> same_ends]
             ELSE same_ends_fold(Tail(path_vec), nodes, TRUE)
        ELSE same_ends_fold(Tail(path_vec), nodes, same_ends)

\* The callback of evidence_of_missed when paths are published for the
\* target: [err, value], value the needs_arbitration it returns.
missed_in_paths(path_vec, nodes, order_match) ==
    IF ~order_match THEN [err |-> "NotMatch", value |-> FALSE]
    ELSE
    LET f == same_ends_fold(path_vec, nodes, FALSE)
    IN  [err |-> f.err, value |-> ~f.same_ends]

\* The callback without the comparison with the cell at `index`.
missed_in_levels_below_only(result_hash_sets, index, deep, user_full_order, order_match) ==
    LET last_r_hash == result_hash_sets[Len(result_hash_sets)]
        u == SubSeq(user_full_order, 1, RANGE)
    IN  IF ~(index <= Len(last_r_hash))
        THEN [err |-> "IndexExceedsMaximum", value |-> FALSE]
        ELSE IF deep > 1 /\ ~order_match
        THEN [err |-> "NotMatch", value |-> FALSE]
        ELSE IF index > 0 /\ ~bytes_less(last_r_hash[index].order, u)
        THEN [err |-> "PathIndexError", value |-> FALSE]
        ELSE [err |-> "Ok", value |-> TRUE]

\* The callback when no paths are published. `index` counts from 0, the
\* sequences of the model from 1.
missed_in_levels(result_hash_sets, index, deep, user_full_order, order_match) ==
    LET last_r_hash == result_hash_sets[Len(result_hash_sets)]
        u == SubSeq(user_full_order, 1, RANGE)
    IN  IF ~(index <= Len(last_r_hash))
        THEN [err |-> "IndexExceedsMaximum", value |-> FALSE]
        ELSE IF deep > 1 /\ ~order_match
        THEN [err |-> "NotMatch", value |-> FALSE]
        ELSE IF index > 0 /\ ~bytes_less(last_r_hash[index].order, u)
        THEN [err |-> "PathIndexError", value |-> FALSE]
        ELSE IF index < Len(last_r_hash)
                /\ ~bytes_less(u, last_r_hash[index + 1].order)
        THEN [err |-> "PathIndexError", value |-> FALSE]
        ELSE [err |-> "Ok", value |-> TRUE]

\* Vec::remove at the place binary_search finds `score` (the list as it is
\* when `score` is not in it).
RECURSIVE remove_score(_, _)
remove_score(score_list, score) ==
    IF score_list = << >> THEN << >>
    ELSE IF Head(score_list) = score THEN Tail(score_list)
    ELSE << Head(score_list) >> \o remove_score(Tail(score_list), score)

\* score_list_insert: `score` put at its place in the sorted list.
RECURSIVE score_list_insert(_, _)
score_list_insert(score_list, score) ==
    IF score_list = << >> THEN << score >>
    ELSE IF score <= Head(score_list) THEN << score >> \o score_list
    ELSE << Head(score_list) >> \o score_list_insert(Tail(score_list), score)

mutate_score(score_list, old_score, new_score) ==
    score_list_insert(remove_score(score_list, old_score), new_score)

\* The outcome of a call on the paths: its result and, for the target, the
\* stored record, levels, paths, missed path and candidate, and the score
\* list, when it ends.
PathOutcome(result, meta, sets, paths, missed, candidate, score_list) ==
    [result |-> result, meta |-> meta, sets |-> sets, paths |-> paths,
     missed |-> missed, candidate |-> candidate, score_list |-> score_list]

\* What is stored for the target.
Stored(target) ==
    [meta |-> Metadatas[target], sets |-> ResultHashsSets[target],
     paths |-> Paths[target], missed |-> MissedPaths[target],
     candidate |-> Candidates[target], score_list |-> ScoreList]

\* The call that leaves the storage as it is.
PathFailed(result, target) ==
    PathOutcome(result, Metadatas[target], ResultHashsSets[target],
                Paths[target], MissedPaths[target], Candidates[target],
                ScoreList)

\* evidence_of_missed. `step` is the answer of Reputation::is_step(Seed);
\* ChallengeBase::evidence is the new_evidence of the challenge pallet, whose
\* callback gets (remark, score).
evidence_of_missed(challenger, target, nodes, index, step, trust, order_match) ==
    IF ~step THEN PathFailed("StepNotMatch", target)
    ELSE IF checked_nodes(nodes, target, trust) /= "Ok"
    THEN PathFailed(checked_nodes(nodes, target, trust), target)
    ELSE
    LET start == get_nodes_ends(nodes)[1]
        stop == get_nodes_ends(nodes)[2]
        deep == Len(ResultHashsSets[target])
    IN  IF deep = 0 THEN PathFailed("ResultHashNotExit", target)
        ELSE
        LET user_full_order == make_full_order(start, stop, deep)
            closure ==
                IF Paths[target] /= None
                THEN missed_in_paths(Paths[target][1], nodes, order_match)
                ELSE missed_in_levels(ResultHashsSets[target], index, deep,
                                      user_full_order, order_match)
            o == new_evidence(challenger, target,
                              IF closure.err = "Ok"
                              THEN Some(closure.value) ELSE None)
        IN  IF o.result /= "Ok"
            THEN PathFailed(IF o.cb /= None THEN closure.err ELSE o.result,
                            target)
            ELSE IF o.ret /= None
            THEN \* restart(target, challenger, &score)
                 PathOutcome("Ok", o.meta, << >>, None, None,
                             [Candidates[target] EXCEPT
                                 !.score = o.ret[1],
                                 !.pathfinder = challenger],
                             mutate_score(ScoreList, Candidates[target].score,
                                          o.ret[1]))
            ELSE PathOutcome("Ok", o.meta, ResultHashsSets[target],
                             Paths[target], Some(nodes), Candidates[target],
                             ScoreList)

\* SpecPaths: a record in status Examine whose challenger is "alice", with
\* its upload complete or not (or no record); no, one or two levels of two
\* cells stored; no paths, one path or two paths published; and
\* evidence_of_missed called, any number of times, with the arguments the
\* initial state draws.

MissedRecords ==
    { [DefaultMetadata EXCEPT
          !.pool = [staking |-> CHALLENGE_STAKING_AMOUNT, sub_staking |-> 0,
                    earnings |-> 126],
          !.progress = [owner |-> "alice", total |-> g[1], done |-> g[2]],
          !.last_update = GameOpened,
          !.score = 5,
          !.status = "EXAMINE",
          !.challenger = "alice"] :
        g \in {<< 0, 0 >>, << MAX_UPDATE_COUNT, 0 >>} }

\* A level with the orders << 0, 1 >> and << 0, 3 >>.
MissedLevel ==
    OrderedSet_from(to_result_hashs(
        << PostCell(<< 0, 1 >>, 1), PostCell(<< 0, 3 >>, 1) >>))

MissedLevels == { << >>, << MissedLevel >>, << MissedLevel, MissedLevel >> }

Path(nodes, total) == [nodes |-> nodes, total |-> total]

\* What the pathfinder published for the target.
PublishedPaths ==
    { None,
      Some(<< Path(<< "a", "t", "c", "b" >>, 1) >>),
      Some(<< Path(<< "a", "t" >>, 1), Path(<< "a", "t", "c", "b" >>, 1) >>) }

\* The node sequences a challenger claims: too short, without the target,
\* with endpoints of three kinds, and three with the endpoints "a" and "b".
ClaimedNodes ==
    { << "a" >>, << "a", "b" >>, << "a", "t" >>, << "t", "b" >>,
      << "a", "t", "b" >>, << "a", "t", "c", "b" >>, << "a", "c", "t", "b" >> }

\* The node sequences of the paths given to verify_paths and
\* checked_paths_vec.
PathNodes == { << >>, << "a" >>, << "a", "b" >>, << "a", "t", "b" >> }

\* Path.total: none, two values inside the bound, the bound.
PathTotals == {0, 20, 50, MAX_SHORTEST_PATH}

PathLists ==
    LET P == { Path(n, t) : n \in PathNodes, t \in PathTotals }
    IN  { << >> } \cup { << p >> : p \in P }
        \cup { << p, q >> : p \in P, q \in P }

\* The scores of the cell the paths are verified against.
CellScores == {2, 5, 7}

\* The trust graph: every sequence is a path, or every one but two.
TrustGraphs ==
    { ClaimedNodes \cup PathNodes,
      (ClaimedNodes \cup PathNodes) \ {<< "a", "t", "b" >>, << "t", "b" >>} }

\* The arguments of evidence_of_missed, with the answers of
\* Reputation::is_step, TrustBase::valid_nodes and the FullOrder comparison.
MissedArgs ==
    [challenger : Accounts, target : Targets, nodes : ClaimedNodes,
     index : 0 .. 3, step : BOOLEAN, trust : TrustGraphs,
     order_match : BOOLEAN]

\* The arguments of verify_paths and checked_paths_vec.
VerifyArgs ==
    [paths : PathLists, target : Targets, score : CellScores,
     order : {<< 0, 4 >>, << 0, 0, 0, 4 >>}, deep : 1 .. 2,
     trust : TrustGraphs]

\* `lastPath` before a call with the arguments `args`.
PathInput(args) == [op |-> "input", result |-> "Ok", args |-> args]

InitPaths ==
    /\ now = GameBlock
    /\ \E m \in {None} \cup {Some(r) : r \in MissedRecords} :
           Metadatas = [t \in Targets |-> m]
    /\ untouched = {}
    /\ last = [op |-> "init", who |-> Default, target |-> "t",
               at |-> GameBlock, pre |-> None, fresh |-> FALSE,
               result |-> "Ok", ret |-> None, calls |-> << >>,
               cb |-> None]
    /\ \E s \in MissedLevels : ResultHashsSets = [t \in Targets |-> s]
    /\ \E c \in CandidateScores :
           /\ Candidates = [t \in Targets |-> [score |-> c, pathfinder |-> Default]]
           /\ ScoreList = [i \in 1 .. Cardinality(Targets) |-> c]
    /\ lastHash = NoHashCall
    /\ \E p \in PublishedPaths : Paths = [t \in Targets |-> p]
    /\ MissedPaths = [t \in Targets |-> None]
    /\ \E args \in MissedArgs : lastPath = PathInput(args)

EvidenceOfMissed ==
    LET a == lastPath.args
        o == evidence_of_missed(a.challenger, a.target, a.nodes, a.index,
                                a.step, a.trust, a.order_match)
    IN  /\ Metadatas' = [Metadatas EXCEPT ![a.target] = o.meta]
        /\ ResultHashsSets' = [ResultHashsSets EXCEPT ![a.target] = o.sets]
        /\ Paths' = [Paths EXCEPT ![a.target] = o.paths]
        /\ MissedPaths' = [MissedPaths EXCEPT ![a.target] = o.missed]
        /\ Candidates' = [Candidates EXCEPT ![a.target] = o.candidate]
        /\ ScoreList' = o.score_list
        /\ lastPath' = [op |-> "evidence_of_missed", result |-> o.result,
                        args |-> a, pre |-> Stored(a.target)]
        /\ UNCHANGED << now, untouched, last, lastHash >>

NextPaths == EvidenceOfMissed

SpecPaths == InitPaths /\ [][NextPaths]_vars

\* SpecVerify: verify_paths and checked_paths_vec applied to the paths, the
\* cell and the trust graph the initial state draws; nothing is stored.

InitVerify ==
    /\ now = GameBlock
    /\ Metadatas = [t \in Targets |-> None]
    /\ untouched = {}
    /\ last = [op |-> "init", who |-> Default, target |-> "t",
               at |-> GameBlock, pre |-> None, fresh |-> FALSE,
               result |-> "Ok", ret |-> None, calls |-> << >>,
               cb |-> None]
    /\ ResultHashsSets = [t \in Targets |-> << >>]
    /\ Candidates = [t \in Targets |-> [score |-> 0, pathfinder |-> Default]]
    /\ ScoreList = << >>
    /\ lastHash = NoHashCall
    /\ Paths = [t \in Targets |-> None]
    /\ MissedPaths = [t \in Targets |-> None]
    /\ \E args \in VerifyArgs : lastPath = PathInput(args)

VerifyPaths ==
    LET a == lastPath.args
    IN  /\ lastPath' =
               [op |-> "verify_paths",
                result |-> verify_paths(a.paths, a.target,
                               [order |-> << 0, 1 >>, score |-> a.score,
                                hash |-> 0], a.trust),
                args |-> a]
        /\ UNCHANGED << challengeVars, hashVars, Paths, MissedPaths, ScoreList >>

CheckedPathsVec ==
    LET a == lastPath.args
    IN  /\ lastPath' =
               [op |-> "checked_paths_vec",
                result |-> checked_paths_vec(a.paths, a.target, a.order,
                                             a.deep, a.trust),
                args |-> a]
        /\ UNCHANGED << challengeVars, hashVars, Paths, MissedPaths, ScoreList >>

NextVerify ==
    \/ VerifyPaths
    \/ CheckedPathsVec

SpecVerify == InitVerify /\ [][NextVerify]_vars

\* The sum of the contributions 100 / total of the paths.
RECURSIVE contributions(_)
contributions(paths) ==
    IF paths = << >> THEN 0
    ELSE (100 \div Head(paths).total) + contributions(Tail(paths))

\* C24: verify_paths returns Ok only if every path has at least 2 nodes,
\* contains the target, is a valid path, has 1 <= total < 100 and the
\* contributions 100 / total add up to the score of the cell; a call with a
\* path whose total is 0 or at least 100 ends with an error value, not with
\* an abort; and a call whose paths are all acceptable but whose sum is not
\* the score ends with ScoreMismatch.
C24_VerifyPaths ==
    lastPath.op = "verify_paths" =>
        LET a == lastPath.args
            acceptable ==
                \A i \in 1 .. Len(a.paths) :
                    /\ Len(a.paths[i].nodes) >= 2
                    /\ \E k \in 1 .. Len(a.paths[i].nodes) :
                           a.paths[i].nodes[k] = a.target
                    /\ a.paths[i].nodes \in a.trust
                    /\ 1 <= a.paths[i].total
                    /\ a.paths[i].total < 100
        IN  /\ lastPath.result = "Ok" =>
                   acceptable /\ contributions(a.paths) = a.score
            /\ (\E i \in 1 .. Len(a.paths) :
                    a.paths[i].total = 0 \/ a.paths[i].total >= 100) =>
                   lastPath.result \notin {"Ok", "Panic"}
            /\ (acceptable /\ contributions(a.paths) /= a.score) =>
                   lastPath.result = "ScoreMismatch"

\* C22: with no paths published for the target, evidence_of_missed succeeds
\* only if index is at most the length of the deepest level, the cell below
\* (when index > 0) has an order strictly less than u[..RANGE], the cell at
\* index (when index < length) has one strictly greater, and for a depth
\* above 1 the committed prefix is the prefix of u; a success stores the
\* node sequence in MissedPaths and leaves the record in Arbitration, a
\* failure leaves MissedPaths and the record as they were.
C22_Bracketing ==
    (lastPath.op = "evidence_of_missed" /\ lastPath.pre.paths = None) =>
        LET a == lastPath.args
            pre == lastPath.pre
            deep == Len(pre.sets)
            deepest == pre.sets[deep]
            u == SubSeq(make_full_order(get_nodes_ends(a.nodes)[1],
                                        get_nodes_ends(a.nodes)[2], deep),
                        1, RANGE)
        IN  IF lastPath.result = "Ok"
            THEN /\ deep > 0
                 /\ a.index <= Len(deepest)
                 /\ a.index > 0 => bytes_less(deepest[a.index].order, u)
                 /\ a.index < Len(deepest) =>
                        bytes_less(u, deepest[a.index + 1].order)
                 /\ deep > 1 => a.order_match
                 /\ MissedPaths[a.target] = Some(a.nodes)
                 /\ Metadatas[a.target] /= None
                 /\ Metadatas[a.target][1].status = "ARBITRATION"
            ELSE /\ MissedPaths[a.target] = pre.missed
                 /\ Metadatas[a.target] = pre.meta

\* An omission proof accepted between two cells of the second level.
C22_Witness ==
    /\ lastPath.op = "evidence_of_missed"
    /\ lastPath.result = "Ok"
    /\ lastPath.pre.paths = None
    /\ Len(lastPath.pre.sets) = 2
    /\ lastPath.args.index = 1
    /\ MissedPaths[lastPath.args.target] = Some(lastPath.args.nodes)

is_all_harvest == ~(\E t \in Targets : Metadatas[t] /= None)

\* C32: a harvest on a target that has no record fails, releases nothing and
\* returns no score, whoever calls it and at whatever block; after a
\* successful harvest the record no longer exists, and is_all_harvest is
\* true exactly when no record remains.
C32_HarvestNeedsRecord ==
    last.op = "harvest" =>
        /\ last.pre = None =>
               /\ last.result /= "Ok"
               /\ last.calls = << >>
               /\ last.ret = None
        /\ last.result = "Ok" => Metadatas[last.target] = None
        /\ is_all_harvest <=> (\A t \in Targets : Metadatas[t] = None)

-----------------------------------------------------------------------------
(* The remark from question to the next reply or new_evidence.             *)
(*                                                                         *)
(* SpecRemark starts from a stored record in status Reply or Examine and   *)
(* applies the five operations of the game; `last` then also holds         *)
(* `asked`, the index of the latest successful question that no successful *)
(* reply or new_evidence has followed (None when there is none), and       *)
(* `awaited`, the value of `asked` before the call.                        *)

RemarkRecords ==
    { r \in GameRecords :
        /\ r.status \in {"REPLY", "EXAMINE"}
        /\ r.progress.total \in {0, MAX_UPDATE_COUNT} }

InitRemark ==
    /\ now = GameBlock
    /\ \E r \in RemarkRecords : Metadatas = [t \in Targets |-> Some(r)]
    /\ untouched = {}
    /\ last = [op |-> "init", who |-> Default, target |-> "t",
               at |-> GameBlock, pre |-> None, fresh |-> FALSE,
               result |-> "Ok", ret |-> None, calls |-> << >>,
               cb |-> None, asked |-> None, awaited |-> None]
    /\ NoCommitments

\* `asked` after the call `op` with the outcome `o`; `index` is the argument
\* of a question.
Asked(op, o, index) ==
    IF o.result /= "Ok" THEN last.asked
    ELSE IF op = "question" THEN Some(index)
    ELSE IF op \in {"reply", "new_evidence"} THEN None
    ELSE last.asked

ApplyAsked(op, who, target, o, index) ==
    /\ Metadatas' = [Metadatas EXCEPT ![target] = o.meta]
    /\ untouched' = IF o.result /= "Ok" THEN untouched ELSE untouched \ {target}
    /\ last' = [op |-> op, who |-> who, target |-> target, at |-> now,
                pre |-> Metadatas[target], fresh |-> target \in untouched,
                result |-> o.result, ret |-> o.ret, calls |-> o.calls,
                cb |-> o.cb, asked |-> Asked(op, o, index),
                awaited |-> last.asked]
    /\ UNCHANGED << now, hashVars, pathVars >>

RemarkNext ==
    \E who \in Accounts, target \in Targets, count \in {0, MAX_UPDATE_COUNT},
       up \in {None} \cup {Some(r) : r \in Remarks} :
        ApplyAsked("next", who, target, next(who, target, count, up, TRUE), 0)

RemarkQuestion ==
    \E who \in Accounts, target \in Targets, index \in Remarks :
        ApplyAsked("question", who, target, question(who, target, index), index)

RemarkReply ==
    \E who \in Accounts, target \in Targets, total \in {0, MAX_UPDATE_COUNT},
       count \in {0, MAX_UPDATE_COUNT}, up \in BOOLEAN :
        ApplyAsked("reply", who, target, reply(who, target, total, count, up), 0)

RemarkNewEvidence ==
    \E who \in Accounts, target \in Targets,
       up \in {None, Some(TRUE), Some(FALSE)} :
        ApplyAsked("new_evidence", who, target, new_evidence(who, target, up), 0)

RemarkArbitral ==
    \E who \in Accounts, target \in Targets, score \in ArbitralScores,
       up \in {None} \cup {Some(<< j, r >>) : j \in BOOLEAN, r \in BOOLEAN},
       cfail \in 0 .. 1 :
        ApplyAsked("arbitral", who, target,
                   arbitral(who, target, score, up, cfail), 0)

NextRemark ==
    \/ RemarkNext
    \/ RemarkQuestion
    \/ RemarkReply
    \/ RemarkNewEvidence
    \/ RemarkArbitral

SpecRemark == InitRemark /\ [][NextRemark]_vars

=============================================================================
